---- MODULE Spec2Model ----
(***************************************************************************)
(* The AtomScript scanner (src/src/lexer.rs) and the loop that drives it   *)
(* (src/src/main.rs).                                                      *)
(*                                                                         *)
(* A character is a string: a one-character string stands for itself, and  *)
(* NUL and EACUTE name U+0000 and U+00E9.  A Rust String is a sequence of  *)
(* characters; its len() is the sum of the characters' UTF-8 lengths,      *)
(* while chars().nth(i) indexes characters.                                *)
(***************************************************************************)
EXTENDS Integers, Sequences, FiniteSets, TLC

\* ------------------------------------------------------------------ bounds
\* MaxLen: the longest input enumerated over Sigma.  MaxPast: how far past
\* the end of the input the calls go on (read_position is a usize and grows
\* by one per call).  MaxWs: the longest run of whitespace inserted.
MaxLen == 3
MaxPast == 2
MaxWs == 1

\* -------------------------------------------------------------- characters
NUL == "U+0000"
EACUTE == "U+00E9"
DQ == "\""

Lower == {"a","b","c","d","e","f","g","h","i","j","k","l","m",
          "n","o","p","q","r","s","t","u","v","w","x","y","z"}
Upper == {"A","B","C","D","E","F","G","H","I","J","K","L","M",
          "N","O","P","Q","R","S","T","U","V","W","X","Y","Z"}
Digits == {"0","1","2","3","4","5","6","7","8","9"}

Utf8Len(c) == IF c = EACUTE THEN 2 ELSE 1

\* String::len(): the number of bytes of the UTF-8 encoding.
ByteLen(s) == Len(s) + Cardinality({i \in 1..Len(s) : Utf8Len(s[i]) = 2})

IsAsciiWhitespaceNoTab(c) == c \in {" ", "\n", "\f", "\r"}

IsAsciiWhitespace(c) == c \in {" ", "\t", "\n", "\f", "\r"}
IsAsciiDigit(c) == c \in Digits
IsAsciiAlphanumeric(c) == c \in Lower \cup Upper \cup Digits
\* char::is_numeric, on the characters of the model.
IsNumeric(c) == c \in Digits
IsIdentStart(c) == c \in Lower \cup Upper \cup {"_"}

\* ------------------------------------------------------------------ tokens
Tok(t) == [type |-> t, val |-> <<>>]
TokVal(t, v) == [type |-> t, val |-> v]
NoToken == Tok("none")

TokenFromChar(c) ==
  CASE c = NUL -> Tok("Eof")
    [] c = "+" -> Tok("Plus")
    [] c = "-" -> Tok("Minus")
    [] c = "!" -> Tok("Bang")
    [] c = "*" -> Tok("Asterisk")
    [] c = "/" -> Tok("Slash")
    [] c = "<" -> Tok("Lt")
    [] c = ">" -> Tok("Gt")
    [] c = "=" -> Tok("Assign")
    [] c = "," -> Tok("Comma")
    [] c = ";" -> Tok("Semicolon")
    [] c = "(" -> Tok("LParen")
    [] c = ")" -> Tok("RParen")
    [] c = "{" -> Tok("LBrace")
    [] c = "}" -> Tok("RBrace")
    [] c = ":" -> Tok("Colon")
    [] c = "[" -> Tok("LBracket")
    [] c = "]" -> Tok("RBracket")
    [] OTHER -> Tok("Illegal")

\* isize on a 64-bit target: isize::MAX = 9223372036854775807 (a 32-bit
\* target overflows sooner, in the same way).  A value is kept as its decimal
\* numeral without leading zeros, which names it uniquely.
IsizeMaxDigits ==
  <<"9","2","2","3","3","7","2","0","3","6","8","5","4","7","7","5","8","0","7">>

DigitVal(c) ==
  CASE c = "0" -> 0 [] c = "1" -> 1 [] c = "2" -> 2 [] c = "3" -> 3
    [] c = "4" -> 4 [] c = "5" -> 5 [] c = "6" -> 6 [] c = "7" -> 7
    [] c = "8" -> 8 [] c = "9" -> 9

RECURSIVE Canon(_)
Canon(s) == IF Len(s) > 1 /\ Head(s) = "0" THEN Canon(Tail(s)) ELSE s

RECURSIVE NumeralGreater(_, _)
NumeralGreater(a, b) ==
  IF Len(a) # Len(b) THEN Len(a) > Len(b)
  ELSE IF a = <<>> THEN FALSE
  ELSE IF Head(a) # Head(b) THEN DigitVal(Head(a)) > DigitVal(Head(b))
  ELSE NumeralGreater(Tail(a), Tail(b))

\* str::parse::<isize>() on a run of ASCII digits: Err on the empty string
\* and on a value above isize::MAX, Ok(value) otherwise.
ParseIsize(s) ==
  IF s = <<>> \/ \E i \in 1..Len(s) : ~IsAsciiDigit(s[i])
    THEN [ok |-> FALSE, val |-> <<>>]
  ELSE IF NumeralGreater(Canon(s), IsizeMaxDigits)
    THEN [ok |-> FALSE, val |-> <<>>]
  ELSE [ok |-> TRUE, val |-> Canon(s)]

Keywords ==
  [type : {"Atom"}, val : {<<"a","t","o","m">>}] \cup
  [type : {"Molecule"}, val : {<<"m","o","l","e","c","u","l","e">>}] \cup
  [type : {"Reaction"}, val : {<<"r","e","a","c","t","i","o","n">>}] \cup
  [type : {"True"}, val : {<<"t","r","u","e">>}] \cup
  [type : {"False"}, val : {<<"f","a","l","s","e">>}] \cup
  [type : {"If"}, val : {<<"i","f">>}] \cup
  [type : {"Else"}, val : {<<"e","l","s","e">>}] \cup
  [type : {"Produce"}, val : {<<"p","r","o","d","u","c","e">>}]

KeywordSpellings == {k.val : k \in Keywords}

\* Token::from(String): the result, or a panic when unwrap() meets Err.
TokenFromString(s) ==
  IF s = <<"!", "=">> THEN [panic |-> FALSE, tok |-> Tok("NotEq")]
  ELSE IF s = <<"=", "=">> THEN [panic |-> FALSE, tok |-> Tok("Eq")]
  ELSE IF s \in KeywordSpellings
    THEN [panic |-> FALSE,
          tok |-> Tok((CHOOSE k \in Keywords : k.val = s).type)]
  ELSE IF \A i \in 1..Len(s) : IsNumeric(s[i])
    THEN IF ParseIsize(s).ok
           THEN [panic |-> FALSE, tok |-> TokVal("Int", ParseIsize(s).val)]
           ELSE [panic |-> TRUE, tok |-> NoToken]
  ELSE [panic |-> FALSE, tok |-> TokVal("Ident", s)]

\* ----------------------------------------------------------------- scanner
\* A scanner value l has the struct's fields position, read_position and ch,
\* and fault: "none", "panic" (an unwrap() on None or Err unwound the call)
\* or "diverge" (the call is in a loop that never ends).  After a fault the
\* remaining statements of the call do not run.

NewFields == [position |-> 0, read_position |-> 0, ch |-> NUL, fault |-> "none"]

\* read_char as it would be with the offsets clamped at the end of the input.
ReadCharClamped(inp, l) ==
  IF l.fault # "none" THEN l
  ELSE IF l.read_position >= ByteLen(inp)
    THEN [l EXCEPT !.ch = NUL,
                   !.position = IF l.position >= ByteLen(inp)
                                  THEN l.position ELSE l.read_position,
                   !.read_position = IF l.position >= ByteLen(inp)
                                       THEN l.read_position
                                       ELSE l.read_position + 1]
  ELSE IF l.read_position >= Len(inp)
    THEN [l EXCEPT !.fault = "panic"]
  ELSE [l EXCEPT !.ch = inp[l.read_position + 1],
                 !.position = l.read_position,
                 !.read_position = l.read_position + 1]

\* read_char bounds read_position by the byte length and then fetches by
\* character index: chars().nth() is None, and unwrap() panics, from the
\* number of characters up to the number of bytes.
ReadChar(inp, l) ==
  IF l.fault # "none" THEN l
  ELSE IF l.read_position >= ByteLen(inp)
    THEN [l EXCEPT !.ch = NUL,
                   !.position = l.read_position,
                   !.read_position = l.read_position + 1]
  ELSE IF l.read_position >= Len(inp)
    THEN [l EXCEPT !.fault = "panic"]
  ELSE [l EXCEPT !.ch = inp[l.read_position + 1],
                 !.position = l.read_position,
                 !.read_position = l.read_position + 1]

LexerNew(inp) == ReadChar(inp, NewFields)

\* peek_char has the same bound and the same fetch.
PeekPanics(inp, l) ==
  l.read_position < ByteLen(inp) /\ l.read_position >= Len(inp)

PeekChar(inp, l) ==
  IF l.read_position >= ByteLen(inp) \/ PeekPanics(inp, l) THEN NUL
  ELSE inp[l.read_position + 1]

RECURSIVE SkipWhitespace(_, _)
SkipWhitespace(inp, l) ==
  IF l.fault = "none" /\ IsAsciiWhitespace(l.ch)
    THEN SkipWhitespace(inp, ReadChar(inp, l))
    ELSE l

RECURSIVE ReadIdentiferLoop(_, _, _)
ReadIdentiferLoop(inp, l, ident) ==
  IF l.fault = "none" /\ (IsAsciiAlphanumeric(l.ch) \/ l.ch = "_")
    THEN ReadIdentiferLoop(inp, ReadChar(inp, l), Append(ident, l.ch))
    ELSE [l |-> l, s |-> ident]

ReadIdentifer(inp, l) == ReadIdentiferLoop(inp, l, <<>>)

RECURSIVE ReadNumberLoop(_, _, _)
ReadNumberLoop(inp, l, number) ==
  IF l.fault = "none" /\ IsAsciiDigit(l.ch)
    THEN ReadNumberLoop(inp, ReadChar(inp, l), Append(number, l.ch))
    ELSE [l |-> l, s |-> number]

ReadNumber(inp, l) == ReadNumberLoop(inp, l, <<>>)

\* The loop of read_string ends only on a double quote.  Once the cursor is
\* at or past the end of the input every read_char yields NUL, so the loop
\* pushes NUL until the allocation fails: the call never returns.
RECURSIVE ReadStringLoop(_, _, _)
ReadStringLoop(inp, l, string) ==
  IF l.fault # "none" THEN [l |-> l, s |-> string]
  ELSE IF l.ch = DQ THEN [l |-> l, s |-> string]
  ELSE IF l.position >= ByteLen(inp)
    THEN [l |-> [l EXCEPT !.fault = "diverge"], s |-> string]
  ELSE ReadStringLoop(inp, ReadChar(inp, l), Append(string, l.ch))

ReadString(inp, l) ==
  LET r == ReadStringLoop(inp, ReadChar(inp, l), <<>>)
  IN  [l |-> ReadChar(inp, r.l), s |-> r.s]

Faulted(l, f) == [l EXCEPT !.fault = f]

\* next_token: the scanner after the call, the token it returned (NoToken
\* when the call did not return) and the offset where the token starts.
NextTokenOf(inp, l0) ==
  LET l == SkipWhitespace(inp, l0)
      ret(lx, t) == [l |-> lx, at |-> l.position,
                     tok |-> IF lx.fault = "none" THEN t ELSE NoToken]
  IN
  IF l.fault # "none" THEN ret(l, NoToken)
  ELSE IF IsIdentStart(l.ch) THEN
    LET r == ReadIdentifer(inp, l)
        t == TokenFromString(r.s)
    IN  IF r.l.fault # "none" THEN ret(r.l, NoToken)
        ELSE IF t.panic THEN ret(Faulted(r.l, "panic"), NoToken)
        ELSE ret(r.l, t.tok)
  ELSE IF IsAsciiDigit(l.ch) THEN
    LET r == ReadNumber(inp, l)
        p == ParseIsize(r.s)
    IN  IF r.l.fault # "none" THEN ret(r.l, NoToken)
        ELSE IF ~p.ok THEN ret(Faulted(r.l, "panic"), NoToken)
        ELSE ret(r.l, TokVal("Int", p.val))
  ELSE IF l.ch = DQ THEN
    LET r == ReadString(inp, l)
    IN  ret(r.l, TokVal("String", r.s))
  ELSE IF l.ch \in {"=", "!"} THEN
    IF PeekPanics(inp, l) THEN ret(Faulted(l, "panic"), NoToken)
    ELSE IF PeekChar(inp, l) = "=" THEN
      LET l2 == ReadChar(inp, l)
          t == TokenFromString(<<l.ch, l2.ch>>)
      IN  IF l2.fault # "none" THEN ret(l2, NoToken)
          ELSE IF t.panic THEN ret(Faulted(l2, "panic"), NoToken)
          ELSE ret(ReadChar(inp, l2), t.tok)
    ELSE ret(ReadChar(inp, l), TokenFromChar(l.ch))
  ELSE ret(ReadChar(inp, l), TokenFromChar(l.ch))

\* ------------------------------------------------------------------ inputs
Sigma == {"i", "f", "1", "=", "!", DQ, " ", "@", NUL, EACUTE}

RECURSIVE SeqsUpTo(_, _)
SeqsUpTo(S, n) ==
  IF n = 0 THEN {<<>>}
  ELSE LET shorter == SeqsUpTo(S, n - 1)
       IN  shorter \cup {Append(s, c) : s \in {t \in shorter : Len(t) = n - 1}, c \in S}

Examples == {
  <<"a","t","o","m">>,
  <<"a","t","o","m","s">>,
  <<"p","r","o","d","u","c","e">>,
  <<"a","t","o","m"," ","f","i","v","e"," ","="," ","5",";">>,
  <<"1","0"," ","=","="," ","1","0",";"," ","1","0"," ","!","="," ","9",";">>,
  <<"{",DQ,"f","o","o",DQ,":"," ",DQ,"b","a","r",DQ,"}">>,
  <<"@",DQ,"i","f"," ","1",DQ,"!","=">>,
  <<"0","0","7">>,
  <<"_","i","f"," ","i","f","_","1"," ","i","f","x">>,
  <<"5"," "," "," ","+"," "," "," ","1","0">>,
  <<"5","+","1","0">>,
  <<"[","1",","," ","2","]",";">>,
  <<"!","-","/","*","5",";","\t","5"," ","<"," ","1","0"," ",">"," ","5","\n">>,
  <<"9","2","2","3","3","7","2","0","3","6","8","5","4","7","7","5","8","0","7">>,
  <<"9","2","2","3","3","7","2","0","3","6","8","5","4","7","7","5","8","0","8">>
}

Inputs == SeqsUpTo(Sigma, MaxLen) \cup Examples

\* ------------------------------------------------------------------- state
VARIABLES input, position, read_position, ch, fault, trace

vars == <<input, position, read_position, ch, fault, trace>>

Lexer == [position |-> position, read_position |-> read_position,
          ch |-> ch, fault |-> fault]

Init ==
  /\ input \in Inputs
  /\ position = LexerNew(input).position
  /\ read_position = LexerNew(input).read_position
  /\ ch = LexerNew(input).ch
  /\ fault = "none"
  /\ trace = <<>>

\* One call of next_token by the driver or by any other caller.  trace is
\* the history of the calls: for each, the scanner at entry, the offset of
\* the token's first character, the token and the scanner on return.
NextToken ==
  /\ fault = "none"
  /\ position < ByteLen(input) + MaxPast
  /\ LET r == NextTokenOf(input, Lexer)
     IN  /\ position' = r.l.position
         /\ read_position' = r.l.read_position
         /\ ch' = r.l.ch
         /\ fault' = r.l.fault
         /\ trace' = Append(trace, [pre |-> Lexer, at |-> r.at,
                                    tok |-> r.tok, post |-> r.l])
  /\ UNCHANGED input

Next == NextToken

Spec == Init /\ [][Next]_vars

\* main's inner loop: call next_token until it returns Eof.  The result is
\* the sequence of the tokens returned, ended by Eof or, when a call does
\* not return, by a token named after the fault.
Outcome(l, t) == IF l.fault = "none" THEN t ELSE Tok(l.fault)

RECURSIVE RunFrom(_, _)
RunFrom(inp, l) ==
  LET r == NextTokenOf(inp, l)
  IN  IF r.l.fault # "none" \/ r.tok = Tok("Eof")
        THEN <<Outcome(r.l, r.tok)>>
        ELSE <<r.tok>> \o RunFrom(inp, r.l)

Run(inp) == RunFrom(inp, LexerNew(inp))

\* ----------------------------------------------------------- vocabulary
Calls == 1..Len(trace)
Returned(e) == e.post.fault = "none"
Outcomes == [i \in Calls |-> Outcome(trace[i].post, trace[i].tok)]

RECURSIVE UpToEof(_)
UpToEof(s) ==
  IF s = <<>> THEN <<>>
  ELSE IF Head(s) = Tok("Eof") THEN <<Head(s)>>
  ELSE <<Head(s)>> \o UpToEof(Tail(s))

\* The calls after call i have run to Eof or to a fault.
Settled(i) == fault # "none" \/ \E j \in Calls : j > i /\ trace[j].tok = Tok("Eof")
OutcomesAfter(i) == UpToEof(SubSeq(Outcomes, i + 1, Len(trace)))

\* The character at offset p of the input, NUL at or past its end.
CharAt(p) == IF p < Len(input) THEN input[p + 1] ELSE NUL

Symbols == {"+", "-", "!", "*", "/", "<", ">", "=", ",", ";",
            "(", ")", "{", "}", ":", "[", "]"}
WordChars == Lower \cup Upper \cup Digits \cup {"_"}
Blanks == {" ", "\t", "\n", "\r"}
Recognized == Symbols \cup WordChars \cup Blanks \cup {"\f", DQ}
AllAscii(s) == \A i \in 1..Len(s) : s[i] # EACUTE

\* ------------------------------------------------------------------ claims

\* The input class of C1: ASCII, quotes paired, and outside the quoted
\* strings only recognized symbols, letters, digits, underscores, whitespace.
RECURSIVE InClassFrom(_, _)
InClassFrom(s, inString) ==
  IF s = <<>> THEN ~inString
  ELSE IF Head(s) = DQ THEN InClassFrom(Tail(s), ~inString)
  ELSE IF inString THEN Head(s) \notin {EACUTE, NUL} /\ InClassFrom(Tail(s), TRUE)
  ELSE Head(s) \in Symbols \cup WordChars \cup Blanks /\ InClassFrom(Tail(s), FALSE)

InClass(s) == InClassFrom(s, FALSE)

\* C1: on every input of the class no call faults or fails to return, and
\* Eof has been returned once there are more calls than input characters.
C1_ReachesEof ==
  InClass(input) =>
    /\ fault = "none"
    /\ Len(trace) > Len(input) => \E i \in Calls : trace[i].tok = Tok("Eof")

\* C2: once a call has returned Eof, every later call returns Eof too.
C2_EofIsFinal ==
  \A i \in Calls : \A j \in Calls :
    i < j /\ trace[i].tok = Tok("Eof") =>
      Returned(trace[j]) /\ trace[j].tok = Tok("Eof")

\* The character that follows the current one (NUL at the end of the input).
C3Expected(e) ==
  IF CharAt(e.pre.position + 1) = "="
    THEN /\ e.tok = (IF e.pre.ch = "=" THEN Tok("Eq") ELSE Tok("NotEq"))
         /\ e.post.position = e.pre.position + 2
    ELSE /\ e.tok = (IF e.pre.ch = "=" THEN Tok("Assign") ELSE Tok("Bang"))
         /\ e.post.position = e.pre.position + 1

\* C3: a call entered on '=' or '!' returns Eq or NotEq and consumes two
\* characters when '=' follows, and returns Assign or Bang and consumes one
\* character otherwise.
C3_MaximalMunch ==
  \A i \in Calls :
    trace[i].pre.ch \in {"=", "!"} =>
      Returned(trace[i]) /\ C3Expected(trace[i])

\* The maximal run of letters, digits and underscores at offset p.
RECURSIVE MaxRun(_)
MaxRun(p) ==
  IF CharAt(p) \in WordChars THEN <<CharAt(p)>> \o MaxRun(p + 1) ELSE <<>>

C4Token(run) ==
  CASE run = <<"a","t","o","m">> -> Tok("Atom")
    [] run = <<"m","o","l","e","c","u","l","e">> -> Tok("Molecule")
    [] run = <<"r","e","a","c","t","i","o","n">> -> Tok("Reaction")
    [] run = <<"t","r","u","e">> -> Tok("True")
    [] run = <<"f","a","l","s","e">> -> Tok("False")
    [] run = <<"i","f">> -> Tok("If")
    [] run = <<"e","l","s","e">> -> Tok("Else")
    [] run = <<"p","r","o","d","u","c","e">> -> Tok("Produce")
    [] OTHER -> TokVal("Ident", run)

\* C4: a call entered on a letter or underscore consumes the maximal run of
\* letters, digits and underscores and returns the keyword the whole run
\* spells, or Ident with the run when it spells none.
C4_KeywordExact ==
  \A i \in Calls :
    IsIdentStart(trace[i].pre.ch) =>
      /\ Returned(trace[i])
      /\ trace[i].tok = C4Token(MaxRun(trace[i].pre.position))
      /\ trace[i].post.position =
           trace[i].pre.position + Len(MaxRun(trace[i].pre.position))

\* The offsets at which a token starts or ends in the calls made so far.
Boundaries ==
  {trace[i].pre.position : i \in Calls} \cup
  {trace[i].at : i \in {j \in Calls : Returned(trace[j])}} \cup
  {trace[i].post.position : i \in {j \in Calls : Returned(trace[j])}}

WsRuns == SeqsUpTo(Blanks, MaxWs) \ {<<>>}
Insert(s, k, w) == SubSeq(s, 1, k) \o w \o SubSeq(s, k + 1, Len(s))
\* The last call made is the one that ended the run: the first to return
\* Eof or not to return.
RunEnded ==
  /\ trace # <<>>
  /\ fault # "none" \/ trace[Len(trace)].tok = Tok("Eof")
  /\ \A i \in 1..(Len(trace) - 1) : trace[i].tok # Tok("Eof")

\* C5: when the run has ended, the run over the input with whitespace
\* inserted at a token boundary yields the same tokens up to Eof (and ends
\* the same way when a call does not return).
C5_WhitespaceTransparent ==
  RunEnded =>
    \A k \in Boundaries : \A w \in WsRuns :
      k <= Len(input) => Run(Insert(input, k, w)) = UpToEof(Outcomes)

\* The run has ended and two of its tokens touch: a boundary with no
\* whitespace, where the insertion puts some.
C5_Witness ==
  /\ RunEnded
  /\ \E i \in Calls :
       /\ i + 1 \in Calls
       /\ Returned(trace[i]) /\ Returned(trace[i + 1])
       /\ trace[i + 1].tok # Tok("Eof")
       /\ trace[i + 1].at = trace[i].post.position

\* The offsets of the double quotes after offset p.
QuotesAfter(p) == {q \in (p + 1)..(Len(input) - 1) : CharAt(q) = DQ}
MinOf(S) == CHOOSE q \in S : \A r \in S : q <= r

\* C6: a call entered on a double quote that has a later double quote
\* returns String with the characters strictly between the two, and leaves
\* the cursor on the character after the closing quote.
C6_StringPayload ==
  \A i \in Calls :
    LET e == trace[i]
        p == e.pre.position
    IN  e.pre.ch = DQ /\ QuotesAfter(p) # {} =>
          LET q == MinOf(QuotesAfter(p))
          IN  /\ Returned(e)
              /\ e.tok = TokVal("String", SubSeq(input, p + 2, q))
              /\ e.post.position = q + 1
              /\ e.post.ch = CharAt(q + 1)

\* C7: a call entered on a character outside the recognized set returns
\* Illegal, advances the cursor by one character, and the calls after it
\* yield what a scan of the rest of the input yields.
C7_IllegalRecovers ==
  \A i \in Calls :
    LET e == trace[i]
        p == e.pre.position
    IN  p < Len(input) /\ CharAt(p) \notin Recognized =>
          /\ Returned(e)
          /\ e.tok = Tok("Illegal")
          /\ e.post.position = p + 1
          /\ Settled(i) =>
               OutcomesAfter(i) = Run(SubSeq(input, p + 2, Len(input)))

\* C8: a call entered on a digit returns a token, whatever the length of
\* the digit run.
C8_DigitRunReturns ==
  \A i \in Calls :
    IsAsciiDigit(trace[i].pre.ch) =>
      Returned(trace[i]) /\ trace[i].tok.type \in {"Int", "Illegal"}

C10_SentinelOnlyAtEnd ==
  /\ (fault = "none" /\ ch = NUL) => position >= ByteLen(input)
  /\ \A i \in Calls :
       trace[i].tok = Tok("Eof") => trace[i].at >= ByteLen(input)

\* ------------------------------------------- what holds beside the faults
\* The claims that the faults above break, restricted to the inputs that
\* do not meet them.

\* No run of digits of the input is long enough to exceed isize::MAX.
IntsFit(s) ==
  \A p \in 1..Len(s) :
    \E q \in p..(p + Len(IsizeMaxDigits) - 1) : q > Len(s) \/ s[q] \notin Digits

NoNul(s) == \A i \in 1..Len(s) : s[i] # NUL

\* C1 on the inputs of its class whose digit runs fit.
C1_WhenIntsFit == IntsFit(input) => C1_ReachesEof

\* C2 for an Eof returned at the end of the input.
C2_AfterEndOfInput ==
  \A i \in Calls : \A j \in Calls :
    i < j /\ trace[i].tok = Tok("Eof") /\ trace[i].at >= ByteLen(input) =>
      Returned(trace[j]) /\ trace[j].tok = Tok("Eof")

\* C3 on ASCII input.
C3_OnAscii == AllAscii(input) => C3_MaximalMunch

\* C4 on ASCII input.
C4_OnAscii == AllAscii(input) => C4_KeywordExact

\* C6 on ASCII input.
C6_OnAscii == AllAscii(input) => C6_StringPayload

\* C7 on ASCII input without NUL.
C7_OnAsciiWithoutNul == AllAscii(input) /\ NoNul(input) => C7_IllegalRecovers

\* C8 on ASCII input whose digit runs fit.
C8_WhenIntsFit == AllAscii(input) /\ IntsFit(input) => C8_DigitRunReturns

\* C10 on input without NUL.
C10_WithoutNul == NoNul(input) => C10_SentinelOnlyAtEnd

====
